---- MODULE Spec2Model ----
(***************************************************************************)
(* Model of the handler layer of the YAML language server:                 *)
(*   src/languageservice/utils/schemaUrls.ts     checkSchemaURI            *)
(*   src/yamlServerInit.ts                       YAMLServerInit            *)
(*   src/languageserver/handlers/languageHandlers.ts   LanguageHandlers    *)
(*   src/languageserver/handlers/requestHandlers.ts    RequestHandlers     *)
(*                                                                         *)
(* Strings are sequences of one-character strings, so that trim(),         *)
(* toLowerCase() and prefix tests are computed and not assumed.            *)
(***************************************************************************)
EXTENDS Integers, Sequences, FiniteSets, TLC

VARIABLES
  registered,                         \* the handlers of the connection are registered
  languageService,                    \* YAMLServerInit.languageService: "undefined" or "created"
  handlerService,                     \* the languageService the registered handlers were constructed with
  workspaceRoot,                      \* yamlSettings.workspaceRoot (NoUri while never set)
  workspaceFolders,                   \* yamlSettings.workspaceFolders
  hierarchicalDocumentSymbolSupport,  \* yamlSettings.hierarchicalDocumentSymbolSupport
  documents,                          \* yamlSettings.documents: uri -> revision, Closed when not open
  schemaCache,                        \* language service: the schema URIs that have a cached entry
  schemaOverlay,                      \* language service: schema URI -> keys added at run time
  isTest,                             \* LanguageHandlers.isTest
  previousCall,                       \* LanguageHandlers.previousCall
  clock,                              \* new Date().getTime()
  ticks,                              \* how often the clock has advanced
  computedAt,                         \* history: clock of the last findDocumentSymbols(2) call
  last,                               \* history: the last handler that ran, its parameters and its result
  calls,                              \* history: the calls the last handler made, in order
  resolution                          \* history: the one application of checkSchemaURI

vars == << registered, languageService, handlerService, workspaceRoot, workspaceFolders, hierarchicalDocumentSymbolSupport,
           documents, schemaCache, schemaOverlay, isTest, previousCall, clock, ticks,
           computedAt, last, calls, resolution >>

----------------------------------------------------------------------------
(* Bounds *)

MaxPad == 1
MaxLen == 2
MaxFolders == 2
MaxRev == 1
MaxTicks == 2
MaxChanges == 2
StartTime == 1

----------------------------------------------------------------------------
(* Strings *)

UpperChars == << "A", "B", "C", "D", "E", "F", "G", "H", "I", "J", "K", "L", "M",
                 "N", "O", "P", "Q", "R", "S", "T", "U", "V", "W", "X", "Y", "Z" >>
LowerChars == << "a", "b", "c", "d", "e", "f", "g", "h", "i", "j", "k", "l", "m",
                 "n", "o", "p", "q", "r", "s", "t", "u", "v", "w", "x", "y", "z" >>

Range(s) == { s[i] : i \in DOMAIN s }

IsUpper(c) == c \in Range(UpperChars)
IsLetter(c) == c \in Range(UpperChars) \cup Range(LowerChars)

LowerChar(c) ==
  IF IsUpper(c) THEN LowerChars[CHOOSE i \in DOMAIN UpperChars : UpperChars[i] = c] ELSE c

UpperChar(c) ==
  IF c \in Range(LowerChars)
    THEN UpperChars[CHOOSE i \in DOMAIN LowerChars : LowerChars[i] = c]
    ELSE c

\* String.prototype.toLowerCase
toLowerCase(s) == [ i \in DOMAIN s |-> LowerChar(s[i]) ]

\* the characters String.prototype.trim removes (those of the model's alphabet)
WhiteSpace == { " ", "\t", "\n", "\r" }

RECURSIVE trimStart(_)
trimStart(s) ==
  IF s # << >> /\ Head(s) \in WhiteSpace THEN trimStart(Tail(s)) ELSE s

RECURSIVE trimEnd(_)
trimEnd(s) ==
  IF s # << >> /\ s[Len(s)] \in WhiteSpace THEN trimEnd(SubSeq(s, 1, Len(s) - 1)) ELSE s

\* String.prototype.trim
trim(s) == trimEnd(trimStart(s))

startsWith(s, p) == Len(p) <= Len(s) /\ SubSeq(s, 1, Len(p)) = p
endsWith(s, p) == Len(p) <= Len(s) /\ SubSeq(s, Len(s) - Len(p) + 1, Len(s)) = p

----------------------------------------------------------------------------
(* schemaUrls.ts *)

KUBERNETES_SCHEMA_URL ==
  << "h", "t", "t", "p", "s", ":", "/", "/", "r", "a", "w", ".", "g", "i", "t", "h",
     "u", "b", "u", "s", "e", "r", "c", "o", "n", "t", "e", "n", "t", ".", "c", "o",
     "m", "/", "y", "a", "n", "n", "h", "/", "k", "u", "b", "e", "r", "n", "e", "t",
     "e", "s", "-", "j", "s", "o", "n", "-", "s", "c", "h", "e", "m", "a", "/", "m",
     "a", "s", "t", "e", "r", "/", "v", "1", ".", "2", "0", ".", "5", "-", "s", "t",
     "a", "n", "d", "a", "l", "o", "n", "e", "-", "s", "t", "r", "i", "c", "t", "/",
     "a", "l", "l", ".", "j", "s", "o", "n" >>

\* the literal 'kubernetes' of checkSchemaURI
KubernetesToken == << "k", "u", "b", "e", "r", "n", "e", "t", "e", "s" >>

\* yamlSettings.workspaceRoot before any initialize carried a rootUri
NoUri == << >>

\* a URI scheme: letters followed by ':'
hasScheme(s) ==
  \E i \in DOMAIN s : /\ i > 1
                      /\ s[i] = ":"
                      /\ \A j \in 1 .. (i - 1) : IsLetter(s[j])

isAbsolutePath(s) == s # << >> /\ s[1] = "/"

\* paths.ts isRelativePath: syntactically relative = no scheme, not an absolute path
isRelativePath(s) == ~hasScheme(s) /\ ~isAbsolutePath(s)

\* the identifier without its first path segment (the folder name)
RECURSIVE dropFirstSegment(_)
dropFirstSegment(s) ==
  IF s = << >> THEN << >>
  ELSE IF Head(s) = "/" THEN Tail(s)
  ELSE dropFirstSegment(Tail(s))

joinPath(base, rel) == base \o << "/" >> \o rel

\* paths.ts relativeToAbsolutePath: each workspace folder in order, then the root
RECURSIVE relativeToAbsolutePath(_, _, _)
relativeToAbsolutePath(folders, root, uri) ==
  IF folders # << >>
    THEN IF startsWith(uri, Head(folders).name)
           THEN joinPath(Head(folders).uri, dropFirstSegment(uri))
           ELSE relativeToAbsolutePath(Tail(folders), root, uri)
    ELSE IF root # NoUri THEN joinPath(root, uri) ELSE uri

\* checkSchemaURI with the alias test after the relative-path test
checkSchemaURIBranch_relativeFirst(folders, root, uri) ==
  IF isRelativePath(uri) THEN "relative"
  ELSE IF toLowerCase(trim(uri)) = KubernetesToken THEN "alias"
  ELSE "passthrough"

\* checkSchemaURI comparing the untrimmed identifier
checkSchemaURIBranch_noTrim(folders, root, uri) ==
  IF toLowerCase(uri) = KubernetesToken THEN "alias"
  ELSE IF isRelativePath(uri) THEN "relative"
  ELSE "passthrough"

\* checkSchemaURI without its relative-path branch
checkSchemaURIBranch_noRelative(folders, root, uri) ==
  IF toLowerCase(trim(uri)) = KubernetesToken THEN "alias" ELSE "passthrough"

\* the branch checkSchemaURI takes
checkSchemaURIBranch(folders, root, uri) ==
  IF toLowerCase(trim(uri)) = KubernetesToken THEN "alias"
  ELSE IF isRelativePath(uri) THEN "relative"
  ELSE "passthrough"

\* checkSchemaURI returning the normalised identifier in its last branch
checkSchemaURI_normalised(folders, root, uri) ==
  LET b == checkSchemaURIBranch(folders, root, uri) IN
  IF b = "alias" THEN KUBERNETES_SCHEMA_URL
  ELSE IF b = "relative" THEN relativeToAbsolutePath(folders, root, uri)
  ELSE toLowerCase(trim(uri))

checkSchemaURI(folders, root, uri) ==
  LET b == checkSchemaURIBranch(folders, root, uri) IN
  IF b = "alias" THEN KUBERNETES_SCHEMA_URL
  ELSE IF b = "relative" THEN relativeToAbsolutePath(folders, root, uri)
  ELSE uri

----------------------------------------------------------------------------
(* Workspace configurations and schema identifiers the model draws from *)

Root1 == << "f", "i", "l", "e", ":", "/", "r" >>
Root2 == << "f", "i", "l", "e", ":", "/", "q" >>
Folder1 == [ name |-> << "w" >>, uri |-> << "f", "i", "l", "e", ":", "/", "w" >> ]
Folder2 == [ name |-> << "v" >>, uri |-> << "f", "i", "l", "e", ":", "/", "v" >> ]

RECURSIVE SeqsUpTo(_, _)
SeqsUpTo(S, n) ==
  IF n = 0 THEN { << >> }
  ELSE LET shorter == SeqsUpTo(S, n - 1) IN
       shorter \cup { Append(s, x) : s \in shorter, x \in S }

\* a nullable array: params.workspaceFolders may be null
NullFolders == [ isNull |-> TRUE, list |-> << >> ]
SomeFolders(l) == [ isNull |-> FALSE, list |-> l ]

FolderLists == SeqsUpTo({ Folder1, Folder2 }, MaxFolders)

\* InitializeParams: rootUri (NoUri for null), workspaceFolders, and
\* capabilities.textDocument.documentSymbol.hierarchicalDocumentSymbolSupport
ResolveInitParams ==
  [ rootUri : { NoUri, Root1, Root2 },
    workspaceFolders : { NullFolders } \cup { SomeFolders(l) : l \in FolderLists },
    hierarchical : { FALSE } ]

ServerInitParams ==
  { [ rootUri |-> NoUri, workspaceFolders |-> NullFolders, hierarchical |-> FALSE ],
    [ rootUri |-> Root1, workspaceFolders |-> SomeFolders(<< Folder1 >>), hierarchical |-> TRUE ] }

CaseVariant(mask) ==
  [ i \in DOMAIN KubernetesToken |->
      IF i \in mask THEN UpperChar(KubernetesToken[i]) ELSE KubernetesToken[i] ]

AliasVariants == { CaseVariant(m) : m \in SUBSET (DOMAIN KubernetesToken) }

Pads == SeqsUpTo({ " ", "\t" }, MaxPad)

PaddedAliases ==
  { l \o v \o r : l \in Pads, r \in Pads,
                  v \in { KubernetesToken, CaseVariant(DOMAIN KubernetesToken), CaseVariant({1}) } }

NearMisses ==
  { << "k", "u", "b", "e", "r", "n", "e", "t", "e" >>, << "k", "u", "b", "e", "r", "n", "e", "t", "e", "s", "s" >>, << "k", "u", "b", "e", " ", "r", "n", "e", "t", "e", "s" >>,
    << "k", "u", "b", "e", "r", "n", "e", "t", "e", "s", ".", "j", "s", "o", "n" >>, << "k", "8", "s" >> }

RelativeIds ==
  { << "s", ".", "j", "s", "o", "n" >>, << "w", "/", "s", ".", "j", "s", "o", "n" >>, << "v", "/", "d", "/", "s", ".", "j", "s", "o", "n" >>, << ".", "/", "s", ".", "j", "s", "o", "n" >>,
    << ".", ".", "/", "s", ".", "j", "s", "o", "n" >>, << " ", "/", "s", ".", "j", "s", "o", "n" >> }

AbsoluteIds ==
  { << "/", "s", ".", "j", "s", "o", "n" >>, << "f", "i", "l", "e", ":", "/", "s", ".", "j", "s", "o", "n" >>, << "H", "T", "T", "P", ":", "/", "/", "X", "/", "S", ".", "j", "s", "o", "n" >>,
    << "/", "K", "u", "b", "e", "r", "n", "e", "t", "e", "s" >>, KUBERNETES_SCHEMA_URL }

ShortIds == SeqsUpTo({ "k", "K", " ", "/", ":", "w" }, MaxLen)

Uris == AliasVariants \cup PaddedAliases \cup NearMisses \cup RelativeIds
          \cup AbsoluteIds \cup ShortIds

----------------------------------------------------------------------------
(* Values of the handler layer *)

DocUris == { "a.yaml", "b.yaml" }
SchemaUris == { "s1.json", "s2.json" }
Keys == { "k1" }

\* languageHandlers.ts: the width of the reuse window of documentSymbolHandler
CacheWindow == 100

\* the clock advances by one of these (milliseconds)
TickSteps == { 1, CacheWindow - 1 }

\* the value of a handler that returns nothing, and of an unset previousCall.request
Undefined == [ kind |-> "undefined", uri |-> "", rev |-> 0 ]
\* documentLinkHandler's [] for a missing document
EmptyLinks == [ kind |-> "emptyLinks", uri |-> "", rev |-> 0 ]
\* completionHandler's { items: [], isIncomplete: false }
EmptyCompletion == [ kind |-> "emptyCompletion", uri |-> "", rev |-> 0 ]

\* documents.get(uri) of a URI that is not open
NoDocument == [ uri |-> "", version |-> 0 ]
NoRequest == [ action |-> "none", uri |-> "", key |-> "" ]
NoInitParams == [ rootUri |-> NoUri, workspaceFolders |-> NullFolders, hierarchical |-> FALSE ]

\* previousCall = {}: time 0 stands for the missing time (both are falsy)
EmptyCall == [ uri |-> "", time |-> 0, request |-> Undefined ]

\* yamlSettings.documents.get
get(uri) ==
  IF uri \in DOMAIN documents THEN [ uri |-> uri, version |-> documents[uri] ] ELSE NoDocument

\* yamlSettings.documents.all(), in a fixed order
RECURSIVE SetToSeq(_)
SetToSeq(S) ==
  IF S = { } THEN << >>
  ELSE LET x == CHOOSE y \in S : TRUE IN << x >> \o SetToSeq(S \ { x })

all == [ i \in DOMAIN SetToSeq(DOMAIN documents) |-> get(SetToSeq(DOMAIN documents)[i]) ]

\* a structural query of the language service: a function of the document revision
lsResult(op, doc) == [ kind |-> op, uri |-> doc.uri, rev |-> doc.version ]

\* an entry of the call history
Call(op, uri, request, ret) == [ op |-> op, uri |-> uri, request |-> request, ret |-> ret ]
LsCall(op, doc) == Call(op, doc.uri, NoRequest, FALSE)

Step(op, uri, ret) ==
  [ op |-> op, uri |-> uri, ret |-> ret, changes |-> << >>, request |-> NoRequest,
    init |-> NoInitParams ]

ModificationRequests ==
  [ action : { "add", "delete", "deleteAll", "other" }, uri : SchemaUris, key : Keys ]

ChangeLists == SeqsUpTo(SchemaUris, MaxChanges)

handlerVars == << isTest, previousCall, computedAt >>
schemaVars == << schemaCache, schemaOverlay >>
settingsVars == << workspaceRoot, workspaceFolders, hierarchicalDocumentSymbolSupport, documents >>
timeVars == << clock, ticks >>

----------------------------------------------------------------------------
(* yamlServerInit.ts *)

Init ==
  /\ registered = FALSE
  /\ languageService = "undefined"
  /\ handlerService = "undefined"
  /\ workspaceRoot = NoUri
  /\ workspaceFolders = SomeFolders(<< >>)
  /\ hierarchicalDocumentSymbolSupport = FALSE
  /\ documents = << >>
  /\ schemaCache = { }
  /\ schemaOverlay = [ u \in SchemaUris |-> { } ]
  /\ isTest = FALSE
  /\ previousCall = EmptyCall
  /\ clock = StartTime
  /\ ticks = 0
  /\ computedAt = 0
  /\ last = Step("none", "", Undefined)
  /\ calls = << >>
  /\ resolution = [ uri |-> << >>, branch |-> "none", result |-> << >> ]

\* the assignment of params.workspaceFolders without its default
orEmpty_asSent(folders) == folders

\* params.workspaceFolders || []
orEmpty(folders) == IF folders.isNull THEN SomeFolders(<< >>) ELSE folders

\* registerHandlers: new handler objects, constructed with this.languageService as
\* it is when they are registered
registerHandlers ==
  /\ registered' = TRUE
  /\ handlerService' = languageService'
  /\ isTest' = FALSE
  /\ previousCall' = EmptyCall

\* connectionInitialized: a new language service, the settings, then registerHandlers
connectionInitialized(params) ==
  /\ languageService' = "created"
  /\ schemaCache' = { }
  /\ schemaOverlay' = [ u \in SchemaUris |-> { } ]
  /\ workspaceRoot' = IF params.rootUri # NoUri THEN params.rootUri ELSE workspaceRoot
  /\ workspaceFolders' = orEmpty(params.workspaceFolders)
  /\ hierarchicalDocumentSymbolSupport' = params.hierarchical
  /\ registerHandlers
  /\ last' = [ Step("initialize", "", Undefined) EXCEPT !.init = params ]
  /\ calls' = << >>
  /\ UNCHANGED << documents, clock, ticks, computedAt, resolution >>

\* one application of checkSchemaURI to the current workspace settings
resolve(uri) ==
  /\ resolution.branch = "none"
  /\ resolution' =
       [ uri |-> uri,
         branch |-> checkSchemaURIBranch(workspaceFolders.list, workspaceRoot, uri),
         result |-> checkSchemaURI(workspaceFolders.list, workspaceRoot, uri) ]
  /\ UNCHANGED << registered, languageService, handlerService, settingsVars, schemaVars, handlerVars, timeVars, last, calls >>

\* the workspace is configured by initialize calls, then one identifier is resolved
NextResolve ==
  /\ resolution.branch = "none"
  /\ \/ \E params \in ResolveInitParams : connectionInitialized(params)
     \/ \E uri \in Uris : resolve(uri)

SpecResolve == Init /\ [][NextResolve]_vars

----------------------------------------------------------------------------
(* The collaborators of the handlers: documents, clock, language service *)

\* TextDocuments: a document is created on open, at revision 0
didOpen(uri) ==
  /\ registered
  /\ uri \notin DOMAIN documents
  /\ documents' = [ u \in DOMAIN documents \cup { uri } |->
                      IF u = uri THEN 0 ELSE documents[u] ]
  /\ last' = Step("didOpen", uri, Undefined)
  /\ calls' = << >>
  /\ UNCHANGED << registered, languageService, handlerService, workspaceRoot, workspaceFolders,
                  hierarchicalDocumentSymbolSupport, schemaVars, handlerVars, timeVars,
                  resolution >>

\* TextDocuments: every edit gives the document a new revision
didChange(uri) ==
  /\ registered
  /\ uri \in DOMAIN documents
  /\ documents[uri] < MaxRev
  /\ documents' = [ documents EXCEPT ![uri] = @ + 1 ]
  /\ last' = Step("didChange", uri, Undefined)
  /\ calls' = << >>
  /\ UNCHANGED << registered, languageService, handlerService, workspaceRoot, workspaceFolders,
                  hierarchicalDocumentSymbolSupport, schemaVars, handlerVars, timeVars,
                  resolution >>

\* TextDocuments: a document is destroyed on close
didClose(uri) ==
  /\ registered
  /\ uri \in DOMAIN documents
  /\ documents' = [ u \in DOMAIN documents \ { uri } |-> documents[u] ]
  /\ last' = Step("didClose", uri, Undefined)
  /\ calls' = << >>
  /\ UNCHANGED << registered, languageService, handlerService, workspaceRoot, workspaceFolders,
                  hierarchicalDocumentSymbolSupport, schemaVars, handlerVars, timeVars,
                  resolution >>

\* time passes between two requests
Tick(d) ==
  /\ ticks < MaxTicks
  /\ clock' = clock + d
  /\ ticks' = ticks + 1
  /\ last' = Step("tick", "", Undefined)
  /\ calls' = << >>
  /\ UNCHANGED << registered, languageService, handlerService, settingsVars, schemaVars, handlerVars, resolution >>

\* a test sets the public field LanguageHandlers.isTest
setIsTest(b) ==
  /\ registered
  /\ isTest # b
  /\ isTest' = b
  /\ last' = Step("setIsTest", "", Undefined)
  /\ calls' = << >>
  /\ UNCHANGED << registered, languageService, handlerService, settingsVars, schemaVars, previousCall, computedAt,
                  timeVars, resolution >>

\* SchemaStore.get on a lookup miss: the fetched schema is cached under its URI
schemaFetch(uri) ==
  /\ registered
  /\ uri \notin schemaCache
  /\ schemaCache' = schemaCache \cup { uri }
  /\ last' = Step("schemaFetch", uri, Undefined)
  /\ calls' = << >>
  /\ UNCHANGED << registered, languageService, handlerService, settingsVars, schemaOverlay, handlerVars, timeVars,
                  resolution >>

\* SchemaStore.resetSchema: evicts the entry, returns whether there was one
resetSchema(cache, uri) == [ ret |-> uri \in cache, cache |-> cache \ { uri } ]

\* SchemaStore.modifyContent(addition): merges a fragment into the schema at uri
modifySchemaContent(overlay, request) ==
  [ overlay EXCEPT ![request.uri] = @ \cup { request.key } ]

\* SchemaStore.modifyContent(deletion): removes the named path
deleteSchemaContent(overlay, request) ==
  [ overlay EXCEPT ![request.uri] = @ \ { request.key } ]

\* SchemaStore.modifyContent(deletionAll): removes every added fragment of uri
deleteSchemasWhole(overlay, request) ==
  [ overlay EXCEPT ![request.uri] = { } ]

----------------------------------------------------------------------------
(* languageHandlers.ts *)

\* what every handler of this file leaves alone unless it says otherwise
readFrame ==
  UNCHANGED << registered, languageService, handlerService, settingsVars, schemaVars, isTest, timeVars, resolution >>

documentLinkHandler(uri) ==
  /\ registered
  /\ LET document == get(uri) IN
       IF document = NoDocument
         THEN /\ last' = Step("documentLink", uri, EmptyLinks)
              /\ calls' = << >>
         ELSE /\ last' = Step("documentLink", uri, lsResult("findLinks", document))
              /\ calls' = << LsCall("findLinks", document) >>
  /\ readFrame
  /\ UNCHANGED << previousCall, computedAt >>

\* the reuse test of documentSymbolHandler with the window closed at 100 ms
useCache_inclusive(uri) ==
  /\ ~isTest
  /\ previousCall.request # Undefined
  /\ previousCall.time # 0
  /\ previousCall.uri = uri
  /\ clock - previousCall.time <= CacheWindow

\* the reuse test of documentSymbolHandler
useCache(uri) ==
  /\ ~isTest
  /\ previousCall.request # Undefined
  /\ previousCall.time # 0
  /\ previousCall.uri = uri
  /\ clock - previousCall.time < CacheWindow

documentSymbolHandler(uri) ==
  /\ registered
  /\ LET document == get(uri) IN
       IF document = NoDocument
         THEN /\ last' = Step("documentSymbol", uri, Undefined)
              /\ calls' = << >>
              /\ UNCHANGED << previousCall, computedAt >>
         ELSE IF useCache(uri)
           THEN /\ last' = Step("documentSymbol", uri, previousCall.request)
                /\ calls' = << >>
                /\ UNCHANGED << previousCall, computedAt >>
           ELSE LET op == IF hierarchicalDocumentSymbolSupport
                            THEN "findDocumentSymbols2"
                            ELSE "findDocumentSymbols"
                    res == lsResult(op, document)
                IN /\ previousCall' = [ time |-> clock, uri |-> uri, request |-> res ]
                   /\ computedAt' = clock
                   /\ last' = Step("documentSymbol", uri, res)
                   /\ calls' = << LsCall(op, document) >>
  /\ readFrame

formatterHandler(uri) ==
  /\ registered
  /\ LET document == get(uri) IN
       IF document = NoDocument
         THEN /\ last' = Step("formatter", uri, Undefined)
              /\ calls' = << >>
         ELSE /\ last' = Step("formatter", uri, lsResult("doFormat", document))
              /\ calls' = << LsCall("doFormat", document) >>
  /\ readFrame
  /\ UNCHANGED << previousCall, computedAt >>

formatOnTypeHandler(uri) ==
  /\ registered
  /\ LET document == get(uri) IN
       IF document = NoDocument
         THEN /\ last' = Step("formatOnType", uri, Undefined)
              /\ calls' = << >>
         ELSE /\ last' = Step("formatOnType", uri, lsResult("doDocumentOnTypeFormatting", document))
              /\ calls' = << LsCall("doDocumentOnTypeFormatting", document) >>
  /\ readFrame
  /\ UNCHANGED << previousCall, computedAt >>

\* hoverHandler with a schema reset before the hover is computed
hoverHandler_resetting(uri) ==
  /\ registered
  /\ LET document == get(uri) IN
       IF document = NoDocument
         THEN /\ last' = Step("hover", uri, Undefined)
              /\ calls' = << >>
              /\ UNCHANGED schemaCache
         ELSE /\ last' = Step("hover", uri, lsResult("doHoverDetail", document))
              /\ calls' = << Call("resetSchema", "s1.json", NoRequest,
                                  resetSchema(schemaCache, "s1.json").ret),
                             LsCall("doHoverDetail", document) >>
              /\ schemaCache' = resetSchema(schemaCache, "s1.json").cache
  /\ UNCHANGED << registered, languageService, handlerService, settingsVars, schemaOverlay, isTest, timeVars, resolution >>
  /\ UNCHANGED << previousCall, computedAt >>

hoverHandler(uri) ==
  /\ registered
  /\ LET document == get(uri) IN
       IF document = NoDocument
         THEN /\ last' = Step("hover", uri, Undefined)
              /\ calls' = << >>
         ELSE /\ last' = Step("hover", uri, lsResult("doHoverDetail", document))
              /\ calls' = << LsCall("doHoverDetail", document) >>
  /\ readFrame
  /\ UNCHANGED << previousCall, computedAt >>

completionHandler(uri) ==
  /\ registered
  /\ LET textDocument == get(uri) IN
       IF textDocument = NoDocument
         THEN /\ last' = Step("completion", uri, EmptyCompletion)
              /\ calls' = << >>
         ELSE /\ last' = Step("completion", uri, lsResult("doComplete", textDocument))
              /\ calls' = << LsCall("doComplete", textDocument) >>
  /\ readFrame
  /\ UNCHANGED << previousCall, computedAt >>

foldingRangeHandler(uri) ==
  /\ registered
  /\ LET textDocument == get(uri) IN
       IF textDocument = NoDocument
         THEN /\ last' = Step("foldingRange", uri, Undefined)
              /\ calls' = << >>
         ELSE /\ last' = Step("foldingRange", uri, lsResult("getFoldingRanges", textDocument))
              /\ calls' = << LsCall("getFoldingRanges", textDocument) >>
  /\ readFrame
  /\ UNCHANGED << previousCall, computedAt >>

codeActionHandler(uri) ==
  /\ registered
  /\ LET textDocument == get(uri) IN
       IF textDocument = NoDocument
         THEN /\ last' = Step("codeAction", uri, Undefined)
              /\ calls' = << >>
         ELSE /\ last' = Step("codeAction", uri, lsResult("getCodeAction", textDocument))
              /\ calls' = << LsCall("getCodeAction", textDocument) >>
  /\ readFrame
  /\ UNCHANGED << previousCall, computedAt >>

\* the loop leaving at the first reset that returns true
RECURSIVE resetEach_shortCircuit(_, _)
resetEach_shortCircuit(cache, changes) ==
  IF changes = << >> THEN [ cache |-> cache, calls |-> << >> ]
  ELSE LET r == [ ret |-> Head(changes) \in cache, cache |-> cache \ { Head(changes) } ]
           rest == IF r.ret THEN [ cache |-> r.cache, calls |-> << >> ]
                   ELSE resetEach_shortCircuit(r.cache, Tail(changes))
       IN [ cache |-> rest.cache,
            calls |-> << [ op |-> "resetSchema", uri |-> Head(changes),
                           request |-> [ action |-> "none", uri |-> "", key |-> "" ],
                           ret |-> r.ret ] >> \o rest.calls ]

\* change.changes.forEach: one resetSchema per entry, in order; the calls with
\* their results, and the cache after them
RECURSIVE resetEach(_, _)
resetEach(cache, changes) ==
  IF changes = << >> THEN [ cache |-> cache, calls |-> << >> ]
  ELSE LET r == resetSchema(cache, Head(changes))
           rest == resetEach(r.cache, Tail(changes))
       IN [ cache |-> rest.cache,
            calls |-> << Call("resetSchema", Head(changes), NoRequest, r.ret) >> \o rest.calls ]

\* hasChanges taking the value of the last reset alone
hasChanges_lastOnly(resets) == resets # << >> /\ resets[Len(resets)].ret

\* hasChanges after the loop: some reset returned true
hasChanges(resets) == \E i \in DOMAIN resets : resets[i].ret

\* documents.all().forEach(document => validationHandler.validate(document))
validateAll == [ i \in DOMAIN all |-> Call("validate", all[i].uri, NoRequest, FALSE) ]

watchedFilesHandler(changes) ==
  /\ registered
  /\ LET r == resetEach(schemaCache, changes) IN
       /\ schemaCache' = r.cache
       /\ calls' = r.calls \o (IF hasChanges(r.calls) THEN validateAll ELSE << >>)
  /\ last' = [ Step("watchedFiles", "", Undefined) EXCEPT !.changes = changes ]
  /\ UNCHANGED << registered, languageService, handlerService, settingsVars, schemaOverlay, handlerVars, timeVars,
                  resolution >>

----------------------------------------------------------------------------
(* requestHandlers.ts *)

\* the handler with the operations of add and delete exchanged
registerSchemaModificationNotificationHandler_swapped(modifications) ==
  /\ registered
  /\ IF modifications.action = "add"
       THEN /\ schemaOverlay' = deleteSchemaContent(schemaOverlay, modifications)
            /\ calls' = << Call("deleteSchemaContent", "", modifications, FALSE) >>
     ELSE IF modifications.action = "delete"
       THEN /\ schemaOverlay' = modifySchemaContent(schemaOverlay, modifications)
            /\ calls' = << Call("modifySchemaContent", "", modifications, FALSE) >>
     ELSE IF modifications.action = "deleteAll"
       THEN /\ schemaOverlay' = deleteSchemasWhole(schemaOverlay, modifications)
            /\ calls' = << Call("deleteSchemasWhole", "", modifications, FALSE) >>
     ELSE /\ UNCHANGED schemaOverlay
          /\ calls' = << >>
  /\ last' = [ Step("schemaModification", "", Undefined) EXCEPT !.request = modifications ]
  /\ UNCHANGED << registered, languageService, handlerService, settingsVars, schemaCache, handlerVars, timeVars, resolution >>

registerSchemaModificationNotificationHandler(modifications) ==
  /\ registered
  /\ IF modifications.action = "add"
       THEN /\ schemaOverlay' = modifySchemaContent(schemaOverlay, modifications)
            /\ calls' = << Call("modifySchemaContent", "", modifications, FALSE) >>
     ELSE IF modifications.action = "delete"
       THEN /\ schemaOverlay' = deleteSchemaContent(schemaOverlay, modifications)
            /\ calls' = << Call("deleteSchemaContent", "", modifications, FALSE) >>
     ELSE IF modifications.action = "deleteAll"
       THEN /\ schemaOverlay' = deleteSchemasWhole(schemaOverlay, modifications)
            /\ calls' = << Call("deleteSchemasWhole", "", modifications, FALSE) >>
     ELSE /\ UNCHANGED schemaOverlay
          /\ calls' = << >>
  /\ last' = [ Step("schemaModification", "", Undefined) EXCEPT !.request = modifications ]
  /\ UNCHANGED << registered, languageService, handlerService, settingsVars, schemaCache, handlerVars, timeVars, resolution >>

\* the HoverDetailRequest handler: the document is passed on as it was found
hoverDetailRequest(uri) ==
  /\ registered
  /\ LET document == get(uri) IN
       /\ last' = Step("hoverDetail", uri, lsResult("doHoverDetail", document))
       /\ calls' = << LsCall("doHoverDetail", document) >>
  /\ readFrame
  /\ UNCHANGED << previousCall, computedAt >>

----------------------------------------------------------------------------
(* The server *)

\* every handler, over documents that are opened and closed and schemas that are
\* fetched; edits and the clock are read by documentSymbolHandler alone and are
\* part of NextSymbols
Next ==
  \/ \E params \in ServerInitParams : connectionInitialized(params)
  \/ \E uri \in DocUris : didOpen(uri)
  \/ \E uri \in DocUris : didClose(uri)
  \/ \E uri \in SchemaUris : schemaFetch(uri)
  \/ \E uri \in DocUris : documentLinkHandler(uri)
  \/ \E uri \in DocUris : documentSymbolHandler(uri)
  \/ \E uri \in DocUris : formatterHandler(uri)
  \/ \E uri \in DocUris : formatOnTypeHandler(uri)
  \/ \E uri \in DocUris : hoverHandler(uri)
  \/ \E uri \in DocUris : completionHandler(uri)
  \/ \E uri \in DocUris : foldingRangeHandler(uri)
  \/ \E uri \in DocUris : codeActionHandler(uri)
  \/ \E changes \in ChangeLists : watchedFilesHandler(changes)
  \/ \E modifications \in ModificationRequests :
       registerSchemaModificationNotificationHandler(modifications)
  \/ \E uri \in DocUris : hoverDetailRequest(uri)

Spec == Init /\ [][Next]_vars

\* the document-symbol handler with its clock: edits, requests and time
NextSymbols ==
  \/ \E params \in ServerInitParams : connectionInitialized(params)
  \/ \E uri \in DocUris : didOpen(uri)
  \/ \E uri \in DocUris : didChange(uri)
  \/ \E uri \in DocUris : didClose(uri)
  \/ \E uri \in DocUris : documentSymbolHandler(uri)
  \/ \E d \in TickSteps : Tick(d)
  \/ \E b \in BOOLEAN : setIsTest(b)

SpecSymbols == Init /\ [][NextSymbols]_vars

----------------------------------------------------------------------------
(* Properties of checkSchemaURI, under SpecResolve *)

Resolved == resolution.branch # "none"

\* C1: every identifier that equals 'kubernetes' case-insensitively resolves to
\* exactly KUBERNETES_SCHEMA_URL, whatever the workspace folders and root are; the
\* alias test wins over the relative-path branch
C1_AliasResolvesToKubernetesUrl ==
  (Resolved /\ toLowerCase(resolution.uri) = KubernetesToken)
    => resolution.result = KUBERNETES_SCHEMA_URL

\* a mixed-case alias resolved with a folder and a root configured
C1_Witness ==
  /\ resolution.uri = CaseVariant({ 1, 6 })
  /\ isRelativePath(resolution.uri)
  /\ workspaceFolders.list # << >>
  /\ workspaceRoot # NoUri
  /\ resolution.result = KUBERNETES_SCHEMA_URL

\* the branch the specification gives an identifier when the alias is recognised
\* by case-insensitive equality alone
BranchByEquality(uri) ==
  IF toLowerCase(uri) = KubernetesToken THEN "alias"
  ELSE IF isRelativePath(uri) THEN "relative"
  ELSE "passthrough"

\* C5 as stated: the alias branch is taken only when rawUri case-insensitively
\* equals the token; any other identifier takes the relative-path branch if it is
\* relative and the pass-through branch otherwise
C5_AliasOnlyOnEquality ==
  Resolved => resolution.branch = BranchByEquality(resolution.uri)

\* C5 as amended: the alias branch is taken exactly when rawUri, with leading and
\* trailing whitespace removed, case-insensitively equals the token; any other
\* identifier takes the relative-path branch if it is relative and the pass-through
\* branch otherwise, and the result is that branch's
C5_AliasOnTrimmedEquality ==
  Resolved =>
    /\ (resolution.branch = "alias")
         <=> (toLowerCase(trim(resolution.uri)) = KubernetesToken)
    /\ (resolution.branch = "relative")
         <=> (toLowerCase(trim(resolution.uri)) # KubernetesToken /\ isRelativePath(resolution.uri))
    /\ resolution.branch \in { "alias", "relative", "passthrough" }
    /\ resolution.branch = "alias" => resolution.result = KUBERNETES_SCHEMA_URL
    /\ resolution.branch = "passthrough" => resolution.result = resolution.uri
    /\ resolution.branch = "relative" =>
         resolution.result =
           relativeToAbsolutePath(workspaceFolders.list, workspaceRoot, resolution.uri)

\* an identifier that differs from the token by surrounding whitespace took the
\* alias branch
C5_Witness ==
  /\ resolution.uri = << " " >> \o KubernetesToken \o << "\t" >>
  /\ resolution.branch = "alias"
  /\ resolution.result = KUBERNETES_SCHEMA_URL

\* C6: an identifier that is neither the alias nor a relative path is returned
\* unchanged, character for character, whatever the workspace folders and root are
C6_AbsolutePassedThrough ==
  (Resolved /\ toLowerCase(resolution.uri) # KubernetesToken /\ ~isRelativePath(resolution.uri))
    => resolution.result = resolution.uri

\* an upper-case absolute URI resolved with a folder and a root configured
C6_Witness ==
  /\ resolution.uri = << "H", "T", "T", "P", ":", "/", "/", "X", "/", "S", ".", "j", "s", "o", "n" >>
  /\ workspaceFolders.list # << >>
  /\ workspaceRoot # NoUri
  /\ resolution.result = resolution.uri

\* an absolute URI whose base is root and whose path ends with the identifier
AnchoredAt(result, root, uri) ==
  /\ startsWith(result, root \o << "/" >>)
  /\ endsWith(result, uri)
  /\ ~isRelativePath(result)

NoFoldersRootSet == workspaceFolders = SomeFolders(<< >>) /\ workspaceRoot # NoUri

\* C7 as stated: a relative identifier, resolved with a workspace root and no
\* workspace folders, yields an absolute URI anchored at the root
C7_RelativeAnchoredAtRoot ==
  (Resolved /\ isRelativePath(resolution.uri) /\ NoFoldersRootSet)
    => AnchoredAt(resolution.result, workspaceRoot, resolution.uri)

\* C7 as amended: a relative identifier that is not the alias (after trimming,
\* case-insensitively), resolved with a workspace root and no workspace folders,
\* yields an absolute URI anchored at the root
C7_RelativeNonAliasAnchoredAtRoot ==
  (/\ Resolved
   /\ isRelativePath(resolution.uri)
   /\ toLowerCase(trim(resolution.uri)) # KubernetesToken
   /\ NoFoldersRootSet)
    => AnchoredAt(resolution.result, workspaceRoot, resolution.uri)

\* initialize stored [] for a client that sent no folders, and a relative
\* identifier was resolved against the root
C7_Witness ==
  /\ last.op = "initialize"
  /\ last.init.workspaceFolders.isNull
  /\ last.init.rootUri = Root1
  /\ workspaceFolders = SomeFolders(<< >>)
  /\ resolution.uri = << "s", ".", "j", "s", "o", "n" >>
  /\ resolution.result = Root1 \o << "/" >> \o resolution.uri

----------------------------------------------------------------------------
(* Properties of the handlers, under Spec and SpecSymbols *)

RECURSIVE SelectCalls(_, _)
SelectCalls(cs, op) ==
  IF cs = << >> THEN << >>
  ELSE (IF Head(cs).op = op THEN << Head(cs) >> ELSE << >>) \o SelectCalls(Tail(cs), op)

Count(cs, uri) == Cardinality({ i \in DOMAIN cs : cs[i].uri = uri })

\* every open document is validated exactly once, and nothing else is
EachOpenDocumentValidatedOnce(validates) ==
  /\ \A uri \in DOMAIN documents : Count(validates, uri) = 1
  /\ \A i \in DOMAIN validates : validates[i].uri \in DOMAIN documents

\* C2: after a watched-files notification, every open document has been validated
\* exactly once if some resetSchema of a changed URI returned true, and no document
\* has been validated if none did (or the change list was empty)
C2_ValidateIffSomeResetEvicted ==
  last.op = "watchedFiles" =>
    LET resets == SelectCalls(calls, "resetSchema")
        validates == SelectCalls(calls, "validate")
    IN /\ \A i \in DOMAIN resets : resets[i].uri \in Range(last.changes)
       /\ Len(resets) + Len(validates) = Len(calls)
       /\ IF \E i \in DOMAIN resets : resets[i].ret
            THEN EachOpenDocumentValidatedOnce(validates)
            ELSE validates = << >>

\* a notification whose first reset evicted an entry and whose second did not,
\* with two documents open
C2_Witness ==
  /\ last.op = "watchedFiles"
  /\ Len(last.changes) = 2
  /\ calls[1].ret /\ ~calls[2].ret
  /\ Cardinality(DOMAIN documents) = 2
  /\ Len(SelectCalls(calls, "validate")) = 2

ModificationTags == { "add", "delete", "deleteAll" }

\* C3 as stated: after a schema modification request (add, delete or deleteAll)
\* every open document has been validated, after the language-service operation
C3_ModificationRevalidatesOpenDocuments ==
  (last.op = "schemaModification" /\ last.request.action \in ModificationTags) =>
    /\ calls # << >>
    /\ calls[1].op \in { "modifySchemaContent", "deleteSchemaContent", "deleteSchemasWhole" }
    /\ EachOpenDocumentValidatedOnce(SelectCalls(calls, "validate"))

OperationOf(action) ==
  IF action = "add" THEN "modifySchemaContent"
  ELSE IF action = "delete" THEN "deleteSchemaContent"
  ELSE "deleteSchemasWhole"

\* C4: a tagged modification request makes exactly one language-service call, the
\* operation of its tag, with the request as received; a request with any other
\* action makes no call and changes no state
C4_OneOperationPerTag ==
  [][ last'.op = "schemaModification" =>
        LET m == last'.request IN
        IF m.action \in ModificationTags
          THEN calls' = << Call(OperationOf(m.action), "", m, FALSE) >>
          ELSE /\ calls' = << >>
               /\ UNCHANGED << registered, languageService, handlerService, settingsVars, schemaVars, handlerVars, timeVars >>
    ]_vars

\* an add request was handled by one modifySchemaContent call that took effect
C4_Witness ==
  /\ last.op = "schemaModification"
  /\ last.request.action = "add"
  /\ calls = << Call("modifySchemaContent", "", last.request, FALSE) >>
  /\ last.request.key \in schemaOverlay[last.request.uri]

SymbolRequest == last.op = "documentSymbol" /\ last.uri \in DOMAIN documents

\* what the language service computes from the current revision of the document
CurrentSymbols(uri) ==
  lsResult(IF hierarchicalDocumentSymbolSupport
             THEN "findDocumentSymbols2" ELSE "findDocumentSymbols",
           get(uri))

\* C8 as stated: the result documentSymbolHandler returns for an open document is
\* what the language service computes from the document's current revision
C8_SymbolsAreOfCurrentRevision ==
  SymbolRequest => last.ret = CurrentSymbols(last.uri)

ReadOps ==
  { "documentLink", "documentSymbol", "formatter", "formatOnType", "hover", "completion",
    "foldingRange", "codeAction", "hoverDetail" }

SchemaChangingCalls ==
  { "resetSchema", "modifySchemaContent", "deleteSchemaContent", "deleteSchemasWhole" }

Reused == SymbolRequest /\ calls = << >>

\* C10: a stored result is returned without a language-service call only with
\* isTest false, for the URI it was computed for, and less than 100 ms after it was
\* computed (a reuse leaves the stored time at the time of computation); with
\* isTest true every request for an open document calls the language service
C10_ReuseOnlyInsideWindow ==
  /\ Reused =>
       /\ ~isTest
       /\ last.ret = previousCall.request
       /\ previousCall.uri = last.uri
       /\ last.ret.uri = last.uri
       /\ previousCall.time = computedAt
       /\ clock - computedAt < CacheWindow
  /\ (SymbolRequest /\ isTest) => Len(calls) = 1

\* a result reused 99 ms after it was computed
C10_Witness ==
  /\ Reused
  /\ clock - computedAt = CacheWindow - 1

\* C11: a watched-files notification calls resetSchema once for every entry of the
\* change list, in list order, also for the entries after one whose reset returned
\* true, and every validate call comes after the last resetSchema call
C11_OneResetPerChangeBeforeValidate ==
  last.op = "watchedFiles" =>
    /\ Len(calls) >= Len(last.changes)
    /\ \A i \in DOMAIN last.changes :
         calls[i].op = "resetSchema" /\ calls[i].uri = last.changes[i]
    /\ \A i \in DOMAIN calls : i > Len(last.changes) => calls[i].op = "validate"

\* the first reset evicted an entry, the second entry was reset all the same, and
\* the validate calls followed
C11_Witness ==
  /\ last.op = "watchedFiles"
  /\ Len(last.changes) = 2
  /\ last.changes[1] # last.changes[2]
  /\ calls[1].op = "resetSchema" /\ calls[1].ret
  /\ calls[2].op = "resetSchema"
  /\ Len(calls) > 2
  /\ calls[3].op = "validate"

\* what a handler returns for a URI that is not an open document
EmptyResultOf(op) ==
  IF op = "documentLink" THEN EmptyLinks
  ELSE IF op = "completion" THEN EmptyCompletion
  ELSE Undefined

\* C12 as stated: a handler that is given the URI of a document that is not open
\* (document links, symbols, formatting, on-type formatting, hover, completion,
\* folding ranges, code actions, hover-detail request) returns its empty result,
\* makes no language-service call, and leaves previousCall as it was
C12_MissingDocumentGivesEmptyResult ==
  [][ (last'.op \in ReadOps /\ last'.uri \notin DOMAIN documents') =>
        /\ calls' = << >>
        /\ last'.ret = EmptyResultOf(last'.op)
        /\ previousCall' = previousCall
    ]_vars

HandlerOps == ReadOps \cup { "watchedFiles", "schemaModification" }

\* C13: workspaceFolders is never null: an initialize call stores the client's
\* folders, or the empty list when the client sent none; an initialize call replaces
\* workspaceRoot exactly when its rootUri is not null and keeps it otherwise; and
\* the handlers are registered with a language service that has been created, so
\* no handler runs without one
C13_InitializeKeepsSettingsDefined ==
  /\ [](/\ ~workspaceFolders.isNull
        /\ registered => (languageService = "created" /\ handlerService = "created")
        /\ last.op \in HandlerOps => (registered /\ handlerService = "created"))
  /\ [][ last'.op = "initialize" =>
           LET params == last'.init IN
           /\ workspaceFolders' = IF params.workspaceFolders.isNull
                                    THEN SomeFolders(<< >>)
                                    ELSE params.workspaceFolders
           /\ workspaceRoot' = IF params.rootUri # NoUri THEN params.rootUri ELSE workspaceRoot
       ]_vars

\* a second initialize without rootUri and without folders kept the root of the
\* first and stored the empty list
C13_Witness ==
  /\ last.op = "initialize"
  /\ last.init.rootUri = NoUri
  /\ last.init.workspaceFolders.isNull
  /\ workspaceRoot = Root1
  /\ workspaceFolders = SomeFolders(<< >>)
  /\ registered
  /\ handlerService = "created"

====
